---- MODULE Spec2Model ----
(***************************************************************************)
(* Scripts/generate_transactions.py: the anomaly planner and the record   *)
(* synthesizer of generate_transactions, followed by write_csv.            *)
(*                                                                         *)
(* Amounts are held in cents (round(x, 2) of a float is a whole number of  *)
(* cents).  A datetime is held as the number of minutes after base_date;   *)
(* strftime turns it into the <<year, month, day, hour, minute, second>>   *)
(* fields of "%Y-%m-%d %H:%M:%S".  Row indices and positions in            *)
(* available_indices are 0-based as in the script; a TLA+ sequence s holds *)
(* the element of position p at s[p + 1].                                  *)
(***************************************************************************)
EXTENDS Integers, Sequences, FiniteSets, TLC

(* ------------------------------ bounds --------------------------------- *)

\* largest row count whose shuffles are enumerated
MaxRows == 4

(* -------------------------- reference data ----------------------------- *)

MERCHANTS ==
  << "Amazon", "Walmart", "Starbucks", "McDonald's", "Target", "Home Depot",
     "Best Buy", "Costco", "CVS Pharmacy", "Walgreens", "Shell", "Exxon",
     "Whole Foods", "Trader Joe's", "Subway", "Chipotle", "Netflix", "Spotify",
     "Apple Store", "Microsoft Store", "Google Play", "Uber", "Lyft", "Airbnb",
     "Expedia", "Delta Airlines", "United Airlines", "American Airlines" >>

CATEGORIES ==
  << "Groceries", "Restaurants", "Gas", "Shopping", "Entertainment", "Travel",
     "Utilities", "Healthcare", "Transportation", "Subscription", "Electronics",
     "Home Improvement", "Clothing", "Education", "Insurance" >>

MERCHANT_CATEGORY_MAP ==
  [ m \in { MERCHANTS[k] : k \in 1..Len(MERCHANTS) } |->
      CASE m \in {"Amazon", "Walmart", "Target"} -> "Shopping"
        [] m \in {"Starbucks", "McDonald's", "Subway", "Chipotle"} -> "Restaurants"
        [] m = "Home Depot" -> "Home Improvement"
        [] m \in {"Best Buy", "Apple Store", "Microsoft Store"} -> "Electronics"
        [] m \in {"Costco", "Whole Foods", "Trader Joe's"} -> "Groceries"
        [] m \in {"CVS Pharmacy", "Walgreens"} -> "Healthcare"
        [] m \in {"Shell", "Exxon"} -> "Gas"
        [] m \in {"Netflix", "Spotify", "Google Play"} -> "Subscription"
        [] m \in {"Uber", "Lyft"} -> "Transportation"
        [] OTHER -> "Travel" ]

LOCATIONS_USA ==
  << "New York, USA", "Los Angeles, USA", "Chicago, USA", "Houston, USA",
     "Miami, USA", "Seattle, USA", "Boston, USA", "San Francisco, USA" >>

\* the source writes the eleventh name with non-ASCII bytes
LOCATIONS_INTERNATIONAL ==
  << "Toronto, Canada", "Vancouver, Canada", "London, UK", "Paris, France",
     "Berlin, Germany", "Tokyo, Japan", "Sydney, Australia", "Dubai, UAE",
     "Singapore", "Mexico City, Mexico", "Sao Paulo, Brazil",
     "Buenos Aires, Argentina" >>

LOCATIONS == LOCATIONS_USA \o LOCATIONS_INTERNATIONAL

\* the ranges table of generate_normal_amount, in whole currency units
ranges ==
  [ c \in { CATEGORIES[k] : k \in 1..Len(CATEGORIES) } |->
      CASE c = "Groceries" -> <<15, 200>>
        [] c = "Restaurants" -> <<8, 150>>
        [] c = "Gas" -> <<25, 80>>
        [] c = "Shopping" -> <<20, 500>>
        [] c = "Entertainment" -> <<10, 200>>
        [] c = "Travel" -> <<100, 2000>>
        [] c = "Utilities" -> <<50, 300>>
        [] c = "Healthcare" -> <<20, 500>>
        [] c = "Transportation" -> <<5, 100>>
        [] c = "Subscription" -> <<5, 50>>
        [] c = "Electronics" -> <<50, 2000>>
        [] c = "Home Improvement" -> <<30, 1000>>
        [] c = "Clothing" -> <<20, 400>>
        [] c = "Education" -> <<100, 2000>>
        [] c = "Insurance" -> <<50, 500>> ]

\* ranges.get(category, (10, 200))
RangeOf(category) ==
  IF category \in DOMAIN ranges THEN ranges[category] ELSE <<10, 200>>

(* ------------------------- the random source --------------------------- *)
(* Every draw is a choice among values the call can return: the two ends  *)
(* of the range (with a value between them for the group step), or all of  *)
(* the range where it is short.                                            *)

\* random.choice(seq)
Choice(seq) == { seq[1], seq[Len(seq)] }

\* random.choice(seq) where the row's location is drawn afresh: one draw
ChoiceOfLocation(seq) == { seq[1] }

\* round(random.uniform(lo, hi), 2) for whole lo, hi, in cents
UniformCents(lo, hi) == { 100 * lo, 100 * hi }

\* round(random.uniform(0.99, 5.00), 2), in cents
SmallAmounts == { 99, 500 }

\* timedelta(days, hours, minutes) in minutes
TimeDelta(days, hours, minutes) == 1440 * days + 60 * hours + minutes

\* timestamp_obj = base_date + timedelta(days=randint(0,365), hours=randint(0,23),
\* minutes=randint(0,59)) of a pair row: the earliest and the latest moment of
\* the coverage window
RandomTimestamps ==
  { TimeDelta(0, 0, 0), TimeDelta(365, 23, 59) }

\* the same draw in a high-amount or normal row, whose timestamp is formatted
\* at once and read by no other row: one moment, the last minute of February
RowTimestamps ==
  { TimeDelta(58, 23, 59) }

\* base_date + timedelta(days=randint(0,365), hours=randint(0,23))
RandomBaseTimes ==
  { TimeDelta(0, 0, 0), TimeDelta(365, 23, 0) }

\* random.randint(1, 5)
PairMinuteDraws == 1..5

\* random.randint(5, 20)
GroupStepDraws == { 5, 12, 20 }

\* random.randint(1, 50)
AccountDraws == { 50 }

(* --------------------------- amount generator -------------------------- *)

generate_normal_amount(category) ==
  UniformCents(RangeOf(category)[1], RangeOf(category)[2])

\* a floor of 500 instead of 5000
generate_anomalous_amount_low == UniformCents(500, 50000)

generate_anomalous_amount == UniformCents(5000, 50000)

(* ------------------------------ formatting ----------------------------- *)

IsLeap(year) == (year % 4 = 0 /\ year % 100 # 0) \/ year % 400 = 0

DaysInYear(year) == IF IsLeap(year) THEN 366 ELSE 365

DaysInMonth(year, month) ==
  CASE month = 2 -> IF IsLeap(year) THEN 29 ELSE 28
    [] month \in {4, 6, 9, 11} -> 30
    [] OTHER -> 31

\* the <<year, day of the year (from 0)>> of the day-th day counted from 1 January of year
RECURSIVE YearAndDay(_, _)
YearAndDay(year, day) ==
  IF day < DaysInYear(year) THEN <<year, day>>
  ELSE YearAndDay(year + 1, day - DaysInYear(year))

\* the <<month, day of the month (from 1)>> of the day-th day (from 0) counted from the 1st of month
RECURSIVE MonthAndDay(_, _, _)
MonthAndDay(year, month, day) ==
  IF day < DaysInMonth(year, month) \/ month = 12 THEN <<month, day + 1>>
  ELSE MonthAndDay(year, month + 1, day - DaysInMonth(year, month))

\* (base_date + timedelta(minutes=t)).strftime("%Y-%m-%d %H:%M:%S"), base_date = datetime(2023, 1, 1)
strftime(t) ==
  LET yd == YearAndDay(2023, t \div 1440)
      md == MonthAndDay(yd[1], 1, yd[2])
  IN  << yd[1], md[1], md[2], (t % 1440) \div 60, t % 60, 0 >>

\* the decimal digits of str(n), n >= 0
RECURSIVE str(_)
str(n) == IF n < 10 THEN << n >> ELSE Append(str(n \div 10), n % 10)

\* s.zfill(width)
RECURSIVE zfill(_, _)
zfill(s, width) == IF Len(s) >= width THEN s ELSE zfill(<< 0 >> \o s, width)

\* numbering the rows from 0: str(i) instead of str(i+1)
TransactionIdFromZero(i) == << "TXN", zfill(str(i), 6) >>

\* f"TXN{str(i+1).zfill(6)}"
TransactionId(i) == << "TXN", zfill(str(i + 1), 6) >>

\* f"ACC{str(n).zfill(4)}"
AccountId(n) == << "ACC", zfill(str(n), 4) >>

(* --------------------------- the input space --------------------------- *)

\* anomaly_percentage as <<numerator, denominator>>; for these fractions and
\* the row counts below the float product num_rows * anomaly_percentage has
\* the same integer part as the exact product
Fractions == { <<0, 1>>, <<1, 1>>, <<3, 2>> }

PlanFractions ==
  Fractions \cup { <<-1, 2>>, <<1, 20>>, <<1, 2>>, <<7, 4>>, <<2, 1>>, <<9, 2>> }

\* anomaly_percentage of the __main__ block (0.05), and no anomalies at all
DefaultFractions == { <<1, 20>>, <<0, 1>> }

\* num_rows of the __main__ block and the default of generate_transactions
DefaultRows == 500

\* int(num_rows * anomaly_percentage): int() truncates towards zero
IntOfProduct(rows, fraction) ==
  LET p == rows * fraction[1]
  IN  IF p >= 0 THEN p \div fraction[2] ELSE -((-p) \div fraction[2])

\* drawing n indices with repetition instead of shuffling the list
ShufflesWithRepeats(n) == [1..n -> 0..(n - 1)]

\* list(range(n)) after random.shuffle: every permutation of 0..n-1
Shuffles(n) ==
  { s \in [1..n -> 0..(n - 1)] : \A a, b \in 1..n : a # b => s[a] # s[b] }

\* some of the shuffles: the list and the reversed list, rotated by r places
RotatedShuffles(n) ==
  { [k \in 1..n |-> (k - 1 + r) % n] : r \in 0..(IF n = 0 THEN 0 ELSE n - 1) }
  \cup { [k \in 1..n |-> (n - k + r) % n] : r \in 0..(IF n = 0 THEN 0 ELSE n - 1) }

\* two of the shuffles of a long list: the list as it was, and reversed
LongShuffles(n) == { [k \in 1..n |-> k - 1], [k \in 1..n |-> n - k] }

(* ------------------------------- the state ----------------------------- *)

VARIABLES
  num_rows,            \* parameter of generate_transactions
  anomaly_percentage,  \* parameter of generate_transactions
  num_anomalies,
  available_indices,
  idx,
  it,                  \* the loop variable of the planner loop in progress
  anomaly_plan,        \* row index -> plan entry
  i,                   \* the row being synthesized
  transactions,
  csvfile,             \* the lines write_csv wrote
  pc,                  \* "high_amount", "rapid_location_change", "repeated_small",
                       \* "generate", "write_csv", "done", "IndexError"
  reads,               \* positions of available_indices the planner has read
  skipped,             \* a planner slot found too few indices left
  path                 \* per synthesized row, the branch that produced it

vars ==
  << num_rows, anomaly_percentage, num_anomalies, available_indices, idx, it,
     anomaly_plan, i, transactions, csvfile, pc, reads, skipped, path >>

(* ------------------------------ the planner ---------------------------- *)

high_amount_count == num_anomalies \div 3

rapid_location_pairs == (num_anomalies \div 3) \div 2

repeated_small_groups ==
  (num_anomalies - high_amount_count - (rapid_location_pairs * 2)) \div 3

group_size == 3

\* if idx < len(available_indices)
HighGuard(index, length) == index < length

\* the guard of one index used for a pair
PairGuardOfOne(index, length) == index < length

\* if idx + 1 < len(available_indices)
PairGuard(index, length) == index + 1 < length

\* a group guard that wants one index more than the group takes
GroupGuardStrict(index, length) == index + group_size < length

\* if idx + group_size - 1 < len(available_indices)
GroupGuard(index, length) == index + group_size - 1 < length

\* the positions available_indices[lo:hi] reads; a slice stops at the end of the list
SlicePositions(lo, hi) ==
  { p \in lo..(hi - 1) : p < Len(available_indices) }

InitWith(rows, fractions, shuffles) ==
  /\ num_rows = rows
  /\ anomaly_percentage \in fractions
  /\ num_anomalies = IntOfProduct(num_rows, anomaly_percentage)
  /\ available_indices \in shuffles
  /\ idx = 0
  /\ it = 0
  /\ anomaly_plan = << >>
  /\ i = 0
  /\ transactions = << >>
  /\ csvfile = << >>
  /\ pc = "high_amount"
  /\ reads = {}
  /\ skipped = FALSE
  /\ path = << >>

Init == \E rows \in 0..MaxRows : InitWith(rows, Fractions, RotatedShuffles(rows))

InitPlan ==
  \/ \E rows \in 0..MaxRows : InitWith(rows, PlanFractions, Shuffles(rows))
  \/ InitWith(DefaultRows, DefaultFractions, LongShuffles(DefaultRows))

\* for _ in range(high_amount_count): one pass of the loop body
HighAmountStep ==
  /\ pc = "high_amount"
  /\ it < high_amount_count
  /\ it' = it + 1
  /\ IF HighGuard(idx, Len(available_indices))
     THEN /\ reads' = reads \cup { idx }
          /\ skipped' = skipped
          /\ IF idx < Len(available_indices)
             THEN /\ anomaly_plan' =
                       (available_indices[idx + 1] :> [type |-> "high_amount"]) @@ anomaly_plan
                  /\ idx' = idx + 1
                  /\ pc' = pc
             ELSE /\ pc' = "IndexError"
                  /\ UNCHANGED << anomaly_plan, idx >>
     ELSE /\ skipped' = TRUE
          /\ UNCHANGED << anomaly_plan, idx, pc, reads >>
  /\ UNCHANGED << num_rows, anomaly_percentage, num_anomalies, available_indices,
                  i, transactions, csvfile, path >>

HighAmountDone ==
  /\ pc = "high_amount"
  /\ ~(it < high_amount_count)
  /\ pc' = "rapid_location_change"
  /\ it' = 0
  /\ UNCHANGED << num_rows, anomaly_percentage, num_anomalies, available_indices,
                  idx, anomaly_plan, i, transactions, csvfile, reads, skipped, path >>

\* for pair_num in range(rapid_location_pairs): one pass of the loop body
PairStep ==
  /\ pc = "rapid_location_change"
  /\ it < rapid_location_pairs
  /\ it' = it + 1
  /\ IF PairGuard(idx, Len(available_indices))
     THEN /\ reads' = reads \cup { idx, idx + 1 }
          /\ skipped' = skipped
          /\ IF idx + 1 < Len(available_indices)
             THEN LET first_idx == available_indices[idx + 1]
                      second_idx == available_indices[idx + 2]
                  IN  /\ anomaly_plan' =
                           (second_idx :> [type |-> "rapid_location_change",
                                           pair_index |-> 1, pair_id |-> it,
                                           first_idx |-> first_idx])
                           @@ (first_idx :> [type |-> "rapid_location_change",
                                             pair_index |-> 0, pair_id |-> it])
                           @@ anomaly_plan
                      /\ idx' = idx + 2
                      /\ pc' = pc
             ELSE /\ pc' = "IndexError"
                  /\ UNCHANGED << anomaly_plan, idx >>
     ELSE /\ skipped' = TRUE
          /\ UNCHANGED << anomaly_plan, idx, pc, reads >>
  /\ UNCHANGED << num_rows, anomaly_percentage, num_anomalies, available_indices,
                  i, transactions, csvfile, path >>

PairDone ==
  /\ pc = "rapid_location_change"
  /\ ~(it < rapid_location_pairs)
  /\ pc' = "repeated_small"
  /\ it' = 0
  /\ UNCHANGED << num_rows, anomaly_percentage, num_anomalies, available_indices,
                  idx, anomaly_plan, i, transactions, csvfile, reads, skipped, path >>

\* for group_idx, plan_idx in enumerate(group_indices): anomaly_plan[plan_idx] = {...};
\* a later member of the slice overwrites an earlier one with the same row index
GroupEntries(group_indices, merchant, location, amount, base_time) ==
  [ plan_idx \in { group_indices[g] : g \in 1..Len(group_indices) } |->
      [ type |-> "repeated_small",
        merchant |-> merchant,
        location |-> location,
        amount |-> amount,
        base_time |-> base_time,
        group_index |->
          (CHOOSE g \in 1..Len(group_indices) :
             /\ group_indices[g] = plan_idx
             /\ \A h \in (g + 1)..Len(group_indices) : group_indices[h] # plan_idx) - 1 ] ]

\* for _ in range(repeated_small_groups): one pass of the loop body
GroupStep ==
  /\ pc = "repeated_small"
  /\ it < repeated_small_groups
  /\ it' = it + 1
  /\ IF GroupGuard(idx, Len(available_indices))
     THEN LET positions == SlicePositions(idx, idx + group_size)
              group_indices == [ g \in 1..Cardinality(positions) |->
                                   available_indices[idx + g] ]
          IN  \E merchant \in Choice(MERCHANTS), location \in Choice(LOCATIONS),
                 amount \in SmallAmounts, base_time \in RandomBaseTimes :
                /\ anomaly_plan' =
                     GroupEntries(group_indices, merchant, location, amount, base_time)
                     @@ anomaly_plan
                /\ idx' = idx + group_size
                /\ reads' = reads \cup positions
                /\ UNCHANGED << skipped >>
     ELSE /\ skipped' = TRUE
          /\ UNCHANGED << anomaly_plan, idx, reads >>
  /\ UNCHANGED << num_rows, anomaly_percentage, num_anomalies, available_indices,
                  i, transactions, csvfile, pc, path >>

GroupDone ==
  /\ pc = "repeated_small"
  /\ ~(it < repeated_small_groups)
  /\ pc' = "generate"
  /\ it' = 0
  /\ UNCHANGED << num_rows, anomaly_percentage, num_anomalies, available_indices,
                  idx, anomaly_plan, i, transactions, csvfile, reads, skipped, path >>

NextPlan ==
  \/ HighAmountStep
  \/ HighAmountDone
  \/ PairStep
  \/ PairDone
  \/ GroupStep
  \/ GroupDone

SpecPlan == InitPlan /\ [][NextPlan]_vars

(* ---------------------------- the synthesizer -------------------------- *)

\* MERCHANT_CATEGORY_MAP.get(merchant, random.choice(CATEGORIES))
CategoryDraws(merchant) ==
  IF merchant \in DOMAIN MERCHANT_CATEGORY_MAP
  THEN { MERCHANT_CATEGORY_MAP[merchant] }
  ELSE Choice(CATEGORIES)

\* MERCHANT_CATEGORY_MAP.get(merchant, "Shopping")
CategoryOrShopping(merchant) ==
  IF merchant \in DOMAIN MERCHANT_CATEGORY_MAP
  THEN MERCHANT_CATEGORY_MAP[merchant]
  ELSE "Shopping"

\* Python's None
None == [type |-> "None"]

\* plan.get("first_idx"); -1 stands for None (no row has a negative index)
FirstIdx(plan) == IF "first_idx" \in DOMAIN plan THEN plan.first_idx ELSE -1

\* the truth value of first_idx: None and 0 are false
Truthy(first_idx) == first_idx # -1 /\ first_idx # 0

\* anomaly_plan.get(first_idx) if first_idx else None
FirstPlan(plan) ==
  IF Truthy(FirstIdx(plan))
  THEN IF FirstIdx(plan) \in DOMAIN anomaly_plan
       THEN anomaly_plan[FirstIdx(plan)]
       ELSE None
  ELSE None

\* if first_plan and "timestamp" in first_plan
HasTimestamp(first_plan) ==
  first_plan.type # "None" /\ "timestamp" \in DOMAIN first_plan

\* first_plan["timestamp"] + timedelta(minutes=random.randint(1, 5))
SecondTimestamp(first_timestamp, minutes) == first_timestamp + minutes

\* the step counted down from the last member instead of up from the first
GroupMinutesReversed(group_index, step) == (group_size - 1 - group_index) * step

\* the step taken as hours instead of minutes
GroupMinutesOfHours(group_index, step) == group_index * step * 60

\* group_minutes = plan["group_index"] * random.randint(5, 20)
GroupMinutes(group_index, step) == group_index * step

\* transactions.append({...})
Record(row, account, amount, merchant, category, timestamp, location) ==
  [ TransactionID |-> TransactionId(row),
    AccountID |-> AccountId(account),
    Amount |-> amount,
    Merchant |-> merchant,
    Category |-> category,
    Timestamp |-> timestamp,
    Location |-> location ]

Emit(record, branch) ==
  /\ transactions' = Append(transactions, record)
  /\ path' = Append(path, branch)
  /\ i' = i + 1
  /\ UNCHANGED << num_rows, anomaly_percentage, num_anomalies, available_indices,
                  idx, it, csvfile, pc, reads, skipped >>

\* if anomaly_type == "high_amount"
SynthHighAmount ==
  /\ pc = "generate"
  /\ i < num_rows
  /\ i \in DOMAIN anomaly_plan
  /\ anomaly_plan[i].type = "high_amount"
  /\ \E account \in AccountDraws, amount \in generate_anomalous_amount,
        merchant \in Choice(MERCHANTS), location \in ChoiceOfLocation(LOCATIONS),
        timestamp_obj \in RowTimestamps :
       \E category \in CategoryDraws(merchant) :
         Emit(Record(i, account, amount, merchant, category,
                     strftime(timestamp_obj), location), "high_amount")
  /\ UNCHANGED anomaly_plan

\* elif anomaly_type == "rapid_location_change", if plan["pair_index"] == 0
SynthPairFirst ==
  /\ pc = "generate"
  /\ i < num_rows
  /\ i \in DOMAIN anomaly_plan
  /\ anomaly_plan[i].type = "rapid_location_change"
  /\ anomaly_plan[i].pair_index = 0
  /\ \E account \in AccountDraws, merchant \in Choice(MERCHANTS),
        location \in ChoiceOfLocation(LOCATIONS_USA), timestamp_obj \in RandomTimestamps :
       \E category \in CategoryDraws(merchant) :
         \E amount \in generate_normal_amount(category) :
           /\ anomaly_plan' =
                [anomaly_plan EXCEPT ![i] = [timestamp |-> timestamp_obj] @@ @]
           /\ Emit(Record(i, account, amount, merchant, category,
                          strftime(timestamp_obj), location), "first")

\* elif anomaly_type == "rapid_location_change", else (pair_index 1)
SynthPairSecond ==
  /\ pc = "generate"
  /\ i < num_rows
  /\ i \in DOMAIN anomaly_plan
  /\ anomaly_plan[i].type = "rapid_location_change"
  /\ anomaly_plan[i].pair_index # 0
  /\ \E account \in AccountDraws, merchant \in Choice(MERCHANTS),
        location \in ChoiceOfLocation(LOCATIONS_INTERNATIONAL) :
       \E category \in CategoryDraws(merchant) :
         \E amount \in generate_normal_amount(category) :
           LET first_plan == FirstPlan(anomaly_plan[i])
           IN  IF HasTimestamp(first_plan)
               THEN \E minutes \in PairMinuteDraws :
                      Emit(Record(i, account, amount, merchant, category,
                                  strftime(SecondTimestamp(first_plan.timestamp, minutes)),
                                  location), "second")
               ELSE \E timestamp_obj \in RandomTimestamps :
                      Emit(Record(i, account, amount, merchant, category,
                                  strftime(timestamp_obj), location), "fallback")
  /\ UNCHANGED anomaly_plan

\* elif anomaly_type == "repeated_small"
SynthRepeatedSmall ==
  /\ pc = "generate"
  /\ i < num_rows
  /\ i \in DOMAIN anomaly_plan
  /\ anomaly_plan[i].type = "repeated_small"
  /\ LET plan == anomaly_plan[i]
     IN  \E account \in AccountDraws, step \in GroupStepDraws :
           Emit(Record(i, account, plan.amount, plan.merchant,
                       CategoryOrShopping(plan.merchant),
                       strftime(plan.base_time + GroupMinutes(plan.group_index, step)),
                       plan.location), "repeated_small")
  /\ UNCHANGED anomaly_plan

\* else: a row without a plan entry; random.random() < 0.7 chooses the list
SynthNormal ==
  /\ pc = "generate"
  /\ i < num_rows
  /\ i \notin DOMAIN anomaly_plan
  /\ \E account \in AccountDraws, merchant \in Choice(MERCHANTS),
        usa \in BOOLEAN, timestamp_obj \in RowTimestamps :
       \E category \in CategoryDraws(merchant),
          location \in (IF usa THEN ChoiceOfLocation(LOCATIONS_USA)
                        ELSE ChoiceOfLocation(LOCATIONS)) :
         \E amount \in generate_normal_amount(category) :
           Emit(Record(i, account, amount, merchant, category,
                       strftime(timestamp_obj), location), "normal")
  /\ UNCHANGED anomaly_plan

\* return transactions
Return ==
  /\ pc = "generate"
  /\ ~(i < num_rows)
  /\ pc' = "write_csv"
  /\ UNCHANGED << num_rows, anomaly_percentage, num_anomalies, available_indices,
                  idx, it, anomaly_plan, i, transactions, csvfile, reads, skipped, path >>

fieldnames ==
  << "TransactionID", "AccountID", "Amount", "Merchant", "Category", "Timestamp",
     "Location" >>

\* writer.writeheader(); writer.writerows(transactions)
WriteCsv ==
  /\ pc = "write_csv"
  /\ csvfile' = << fieldnames >> \o
       [ r \in 1..Len(transactions) |->
           << transactions[r].TransactionID, transactions[r].AccountID,
              transactions[r].Amount, transactions[r].Merchant,
              transactions[r].Category, transactions[r].Timestamp,
              transactions[r].Location >> ]
  /\ pc' = "done"
  /\ UNCHANGED << num_rows, anomaly_percentage, num_anomalies, available_indices,
                  idx, it, anomaly_plan, i, transactions, reads, skipped, path >>

Next ==
  \/ HighAmountStep
  \/ HighAmountDone
  \/ PairStep
  \/ PairDone
  \/ GroupStep
  \/ GroupDone
  \/ SynthHighAmount
  \/ SynthPairFirst
  \/ SynthPairSecond
  \/ SynthRepeatedSmall
  \/ SynthNormal
  \/ Return
  \/ WriteCsv

Spec == Init /\ [][Next]_vars

(* ------------------------- reading the records ------------------------- *)

RECURSIVE DaysBeforeYear(_)
DaysBeforeYear(year) ==
  IF year <= 2023 THEN 0 ELSE DaysBeforeYear(year - 1) + DaysInYear(year - 1)

RECURSIVE DaysBeforeMonth(_, _)
DaysBeforeMonth(year, month) ==
  IF month <= 1 THEN 0
  ELSE DaysBeforeMonth(year, month - 1) + DaysInMonth(year, month - 1)

\* the minutes between 2023-01-01 00:00:00 and a record's Timestamp
MinutesOf(timestamp) ==
  1440 * (DaysBeforeYear(timestamp[1]) + DaysBeforeMonth(timestamp[1], timestamp[2])
          + timestamp[3] - 1)
  + 60 * timestamp[4] + timestamp[5]

\* the number a sequence of decimal digits writes
RECURSIVE NumberOf(_)
NumberOf(digits) ==
  IF Len(digits) = 0 THEN 0
  ELSE 10 * NumberOf(SubSeq(digits, 1, Len(digits) - 1)) + digits[Len(digits)]

RowsOfType(type) == { k \in DOMAIN anomaly_plan : anomaly_plan[k].type = type }

HighRows == RowsOfType("high_amount")

PairRows == RowsOfType("rapid_location_change")

GroupRows == RowsOfType("repeated_small")

FirstRows == { k \in PairRows : anomaly_plan[k].pair_index = 0 }

SecondRows == { k \in PairRows : anomaly_plan[k].pair_index = 1 }

\* the positions of available_indices at which a planned group starts
GroupStarts ==
  { q \in 0..(Len(available_indices) - group_size) :
      /\ available_indices[q + 1] \in GroupRows
      /\ anomaly_plan[available_indices[q + 1]].group_index = 0 }

\* the row of member g (0, 1, 2) of the group that starts at position q
Member(q, g) == available_indices[q + g + 1]

Synthesized(k) == k < Len(transactions)

RecordOf(k) == transactions[k + 1]

TimeOf(k) == MinutesOf(RecordOf(k).Timestamp)

(* ------------------------------ properties ---------------------------- *)

\* C1: at every moment of the planner, for every row count and fraction, each
\* row index has at most one plan entry: every index the planner consumed
\* made a new entry (none overwrote an earlier one), the entries are rows of
\* [0, N), and every pair is one first entry and one second entry on two
\* different rows.
C1_PlanDisjoint ==
  /\ DOMAIN anomaly_plan \subseteq 0..(num_rows - 1)
  /\ Cardinality(DOMAIN anomaly_plan) = idx
  /\ Cardinality(HighRows) + Cardinality(PairRows) + Cardinality(GroupRows) = idx
  /\ \A k \in SecondRows :
       /\ anomaly_plan[k].first_idx \in FirstRows
       /\ anomaly_plan[k].first_idx # k
       /\ anomaly_plan[anomaly_plan[k].first_idx].pair_id = anomaly_plan[k].pair_id
  /\ Cardinality(FirstRows) = Cardinality(SecondRows)
  /\ Cardinality(GroupRows) = group_size * Cardinality(GroupStarts)

C1_Witness ==
  /\ pc = "generate"
  /\ HighRows # {}
  /\ PairRows # {}
  /\ GroupRows # {}

\* C2 as stated: once both rows of a LocationPair are synthesized, the second
\* record's timestamp is 1 to 5 minutes after the first record's.
C2_PairWindow ==
  \A k \in SecondRows :
    (Synthesized(k) /\ Synthesized(anomaly_plan[k].first_idx))
      => (TimeOf(k) - TimeOf(anomaly_plan[k].first_idx)) \in 1..5

\* C3 as stated: the three records of a RepeatedSmallGroup have timestamps
\* that do not decrease with the ordinal position.
C3_GroupNonDecreasing ==
  \A q \in GroupStarts :
    (\A g \in 0..2 : Synthesized(Member(q, g)))
      => /\ TimeOf(Member(q, 0)) <= TimeOf(Member(q, 1))
         /\ TimeOf(Member(q, 1)) <= TimeOf(Member(q, 2))

\* C3 amended: member 0 is not later than member 1 nor than member 2; member 1
\* is 5 to 20 minutes and member 2 is 10 to 40 minutes after member 0.
C3_GroupOffsets ==
  \A q \in GroupStarts :
    (\A g \in 0..2 : Synthesized(Member(q, g)))
      => /\ (TimeOf(Member(q, 1)) - TimeOf(Member(q, 0))) \in 5..20
         /\ (TimeOf(Member(q, 2)) - TimeOf(Member(q, 0))) \in 10..40

\* a group whose member 2 is earlier than its member 1
C3_Witness ==
  \E q \in GroupStarts :
    /\ \A g \in 0..2 : Synthesized(Member(q, g))
    /\ TimeOf(Member(q, 2)) < TimeOf(Member(q, 1))

\* C4: when the planner has finished and 0 <= totalAnomalies <= N, the plan
\* holds floor(total/3) HighAmount entries, 2*floor(floor(total/3)/2)
\* LocationPair entries and 3*floor((total - high - 2*pairs)/3) group entries,
\* and no slot was skipped; N = 500 with f = 0.05 plans 8 + 8 + 9 = 25 rows and
\* f = 0 plans none, so that no row has a plan entry.
C4_PlanCounts ==
  (pc = "generate" /\ 0 <= num_anomalies /\ num_anomalies <= num_rows)
    => LET highCount == num_anomalies \div 3
           pairCount == highCount \div 2
           groupCount == (num_anomalies - highCount - 2 * pairCount) \div 3
       IN  /\ Cardinality(HighRows) = highCount
           /\ Cardinality(PairRows) = 2 * pairCount
           /\ Cardinality(FirstRows) = pairCount
           /\ Cardinality(GroupRows) = 3 * groupCount
           /\ ~skipped
           /\ (num_rows = 500 /\ anomaly_percentage = <<1, 20>>)
                => /\ Cardinality(HighRows) = 8
                   /\ Cardinality(PairRows) = 8
                   /\ Cardinality(GroupRows) = 9
                   /\ Cardinality(DOMAIN anomaly_plan) = 25
           /\ anomaly_percentage[1] = 0
                => \A row \in 0..(num_rows - 1) : row \notin DOMAIN anomaly_plan

C4_Witness ==
  /\ pc = "generate"
  /\ num_rows = 500
  /\ anomaly_percentage = <<1, 20>>
  /\ Cardinality(DOMAIN anomaly_plan) = 25

\* C5: the planner reads available_indices only at positions below N, never
\* fails on an index, assigns nothing more once a slot was skipped, and the
\* planned rows are the first idx elements of the shuffled list.
C5_NoOverrun ==
  [][ /\ reads' \subseteq 0..(num_rows - 1)
      /\ pc' # "IndexError"
      /\ skipped => anomaly_plan' = anomaly_plan
      /\ DOMAIN anomaly_plan' = { available_indices[p + 1] : p \in 0..(idx' - 1) }
    ]_vars

\* a slot was skipped although an index was left, after rows had been planned
C5_Witness ==
  /\ pc = "generate"
  /\ skipped
  /\ num_anomalies > num_rows
  /\ anomaly_plan # << >>
  /\ idx < num_rows

\* C6: a record's amount lies in [5000, 50000] exactly when its row is planned
\* as HighAmount; every other record's amount lies in the range of its
\* category (in [0.99, 5.00] for a group row), below 5000; no range of the
\* table reaches 5000.
C6_AmountRanges ==
  /\ \A r \in 1..Len(transactions) :
       LET amount == transactions[r].Amount
           high == (r - 1) \in HighRows
           anomalous == 500000 <= amount /\ amount <= 5000000
           range == RangeOf(transactions[r].Category)
       IN  /\ high <=> anomalous
           /\ high <=> path[r] = "high_amount"
           /\ (r - 1) \in GroupRows => (99 <= amount /\ amount <= 500)
           /\ (~high /\ (r - 1) \notin GroupRows)
                => (100 * range[1] <= amount /\ amount <= 100 * range[2])
           /\ ~high => amount < 500000
  /\ \A c \in DOMAIN ranges : ranges[c][1] <= ranges[c][2] /\ ranges[c][2] < 5000
  /\ RangeOf("uncategorized")[2] < 5000

C6_Witness ==
  /\ pc = "done"
  /\ \E r \in 1..Len(transactions) :
       path[r] = "high_amount" /\ transactions[r].Amount = 500000
  /\ \E r \in 1..Len(transactions) :
       path[r] = "normal" /\ transactions[r].Amount = 200000

\* C7: generate_transactions makes one record per row index, in order: while
\* it runs there are i records, the record at position r (from 1) carries
\* transaction number r in six digits, on return there are N records, and
\* write_csv writes the header line and one line per record (the header alone
\* for N = 0).
C7_OneRecordPerRow ==
  /\ Len(transactions) = i
  /\ i <= num_rows
  /\ \A r \in 1..Len(transactions) :
       /\ transactions[r].TransactionID[1] = "TXN"
       /\ Len(transactions[r].TransactionID[2]) = 6
       /\ NumberOf(transactions[r].TransactionID[2]) = r
  /\ pc \in { "write_csv", "done" } => Len(transactions) = num_rows
  /\ pc = "done"
       => /\ Len(csvfile) = num_rows + 1
          /\ csvfile[1] = fieldnames
          /\ \A r \in 1..num_rows : csvfile[r + 1][1] = transactions[r].TransactionID
  /\ (pc = "done" /\ num_rows = 0) => (transactions = << >> /\ csvfile = << fieldnames >>)

C7_Witness ==
  /\ pc = "done"
  /\ num_rows >= 3
  /\ anomaly_plan # << >>
  /\ Len(csvfile) = num_rows + 1

\* C8: the three records of a RepeatedSmallGroup carry the merchant, location
\* and amount fixed in the plan, the same for all three, and the latest of
\* their timestamps is at most 60 minutes after the earliest.
C8_GroupShared ==
  \A q \in GroupStarts :
    \A g, h \in 0..2 :
      (Synthesized(Member(q, g)) /\ Synthesized(Member(q, h)))
        => /\ RecordOf(Member(q, g)).Merchant = RecordOf(Member(q, h)).Merchant
           /\ RecordOf(Member(q, g)).Location = RecordOf(Member(q, h)).Location
           /\ RecordOf(Member(q, g)).Amount = RecordOf(Member(q, h)).Amount
           /\ RecordOf(Member(q, g)).Merchant = anomaly_plan[Member(q, g)].merchant
           /\ RecordOf(Member(q, g)).Location = anomaly_plan[Member(q, g)].location
           /\ RecordOf(Member(q, g)).Amount = anomaly_plan[Member(q, g)].amount
           /\ TimeOf(Member(q, g)) - TimeOf(Member(q, h)) <= 60

C8_Witness ==
  /\ pc = "done"
  /\ \E q \in GroupStarts :
       /\ TimeOf(Member(q, 2)) - TimeOf(Member(q, 0)) = 40
       /\ RecordOf(Member(q, 0)).Merchant = "American Airlines"
       /\ RecordOf(Member(q, 2)).Location = "Buenos Aires, Argentina"

\* C9 as stated: no row is synthesized by the fallback branch, and a second
\* row is synthesized only after its first row.
C9_NoFallback ==
  /\ \A r \in 1..Len(path) : path[r] # "fallback"
  /\ \A k \in SecondRows : Synthesized(k) => Synthesized(anomaly_plan[k].first_idx)

\* C10 as stated: a second row synthesized after its first row (whose
\* timestamp is then in the plan) takes the first timestamp plus 1 to 5
\* minutes, whichever row the first one is; the fallback is taken only when
\* the first row has not been synthesized yet.
C10_SecondAfterFirst ==
  \A k \in SecondRows :
    (Synthesized(k) /\ anomaly_plan[k].first_idx < k)
      => /\ path[k + 1] = "second"
         /\ (TimeOf(k) - TimeOf(anomaly_plan[k].first_idx)) \in 1..5

====
